---- MODULE Spec2Model ----
(***************************************************************************)
(* Model of sanzu-common/src/proto.rs: the length-prefixed framing         *)
(* (Tunnel::send / Tunnel::recv), the Ok/Err envelope layer                *)
(* (recv_*_msg_or_error, send_*_err_event) and the typed dispatch macros   *)
(* (send_*_msg_type!, recv_*_msg_type!).                                   *)
(*                                                                         *)
(* One unidirectional byte stream is modelled; `dir` says which family of  *)
(* the direction-specific functions runs on it ("server": frames written   *)
(* by send_server_* and read by recv_server_*; "client" likewise).         *)
(*                                                                         *)
(* Byte strings are run-length encoded (a sequence of <<byte, count>>      *)
(* runs, adjacent runs of the same byte merged) so that payloads of about  *)
(* MAX_PACKET_LEN bytes can be written, framed and read.  Numbers that can *)
(* exceed 2^31 (the u64 frame length) are kept as their 8 little-endian    *)
(* base-256 digits.                                                        *)
(***************************************************************************)
EXTENDS Integers, Sequences, FiniteSets, TLC

\* proto.rs:21
MAX_PACKET_LEN == 100 * 1024 * 1024

(***************************************************************************)
(* Bounds of the model.                                                    *)
(***************************************************************************)
\* longest local error chain handed to send_*_err_event
MaxChain == 3
\* longest cause list of an envelope or EventError built by a foreign peer
MaxCauses == 2
\* longest body of a raw (arbitrary bytes) chunk put on the stream
MaxRawLen == 2

(***************************************************************************)
(* Byte strings (Vec<u8>, &[u8]) in run-length form.                       *)
(***************************************************************************)
RECURSIVE BLen(_)
BLen(s) == IF s = <<>> THEN 0 ELSE s[1][2] + BLen(Tail(s))

RECURSIVE Norm(_)
Norm(s) ==
  IF Len(s) < 2 THEN s
  ELSE IF s[1][1] = s[2][1]
       THEN Norm(<< <<s[1][1], s[1][2] + s[2][2]>> >> \o Tail(Tail(s)))
       ELSE <<s[1]>> \o Norm(Tail(s))

\* Vec::append / concatenation
BCat(a, b) == Norm(a \o b)

\* a byte string from a plain sequence of bytes
Bytes(seq) == Norm([i \in 1..Len(seq) |-> <<seq[i], 1>>])

\* vec![b; n]
Fill(b, n) == IF n = 0 THEN <<>> ELSE << <<b, n>> >>

RECURSIVE BTake(_, _)
BTake(s, k) ==
  IF k = 0 \/ s = <<>> THEN <<>>
  ELSE IF s[1][2] <= k THEN <<s[1]>> \o BTake(Tail(s), k - s[1][2])
       ELSE << <<s[1][1], k>> >>

RECURSIVE BDrop(_, _)
BDrop(s, k) ==
  IF k = 0 \/ s = <<>> THEN s
  ELSE IF s[1][2] <= k THEN BDrop(Tail(s), k - s[1][2])
       ELSE << <<s[1][1], s[1][2] - k>> >> \o Tail(s)

\* the plain sequence of bytes of a (short) byte string
RECURSIVE Expand(_)
Expand(s) ==
  IF s = <<>> THEN <<>>
  ELSE [i \in 1..s[1][2] |-> s[1][1]] \o Expand(Tail(s))

(***************************************************************************)
(* u64 little-endian header (byteorder), as 8 base-256 digits.             *)
(***************************************************************************)
RECURSIVE Digits(_, _)
Digits(n, k) == IF k = 0 THEN <<>> ELSE <<n % 256>> \o Digits(n \div 256, k - 1)

\* LittleEndian::write_u64(&mut buffer, n), for n < 2^31
WriteU64(n) == Digits(n, 8)

\* digits d (little-endian) > digits e, compared from the most significant
RECURSIVE DigitsGt(_, _, _)
DigitsGt(d, e, i) ==
  IF i = 0 THEN FALSE
  ELSE IF d[i] # e[i] THEN d[i] > e[i]
       ELSE DigitsGt(d, e, i - 1)

\* the value of digits known to be at most MAX_PACKET_LEN
RECURSIVE DigitsVal(_, _)
DigitsVal(d, i) == IF i > Len(d) THEN 0 ELSE d[i] + 256 * DigitsVal(d, i + 1)

\* `x as usize` for a u64 x: all 64 bits on a 64-bit target, the low 32 bits
\* on a 32-bit target
AsUsize(d, bits) == [i \in 1..8 |-> IF i <= bits \div 8 THEN d[i] ELSE 0]

(***************************************************************************)
(* Protocol Buffers wire format (prost).                                   *)
(***************************************************************************)
RECURSIVE EncVarint(_)
EncVarint(n) ==
  IF n < 128 THEN <<n>> ELSE <<(n % 128) + 128>> \o EncVarint(n \div 128)

VarintFail == [ok |-> FALSE, val |-> 0, rest |-> <<>>]

\* b is a byte with the continuation bit, t the varint that follows it
VarintMore(b, t) ==
  IF ~t.ok THEN VarintFail
  ELSE [ok |-> TRUE, val |-> (b - 128) + 128 * t.val, rest |-> t.rest]

\* decode_varint: at most k more bytes
RECURSIVE DecVarint(_, _)
DecVarint(s, k) ==
  IF s = <<>> \/ k = 0 THEN VarintFail
  ELSE IF s[1][1] < 128
       THEN [ok |-> TRUE, val |-> s[1][1], rest |-> BDrop(s, 1)]
       ELSE VarintMore(s[1][1], DecVarint(BDrop(s, 1), k - 1))

\* a length-delimited field: key (tag, wire type 2), length, bytes
EncLenDelim(tag, payload) ==
  BCat(Bytes(<<tag * 8 + 2>> \o EncVarint(BLen(payload))), payload)

FieldFail ==
  [ok |-> FALSE, tag |-> 0, wt |-> 0, num |-> 0, bytes |-> <<>>, rest |-> <<>>]

Fld(tag, wt, num, bytes, rest) ==
  [ok |-> TRUE, tag |-> tag, wt |-> wt, num |-> num, bytes |-> bytes,
   rest |-> rest]

\* One field of a message: the key, then the value its wire type announces
\* (what merge_field reads for a known field and skip_field for an unknown
\* one).  Wire type 3 (a group) is read up to its end-group key.
RECURSIVE ReadField(_)
RECURSIVE SkipGroup(_, _)

FieldVarint(tag, v) ==
  IF v.ok THEN Fld(tag, 0, v.val, <<>>, v.rest) ELSE FieldFail

\* n bytes of value: fixed64, fixed32, or the bytes of a length-delimited one
FieldBytes(tag, wt, r, n) ==
  IF BLen(r) < n THEN FieldFail ELSE Fld(tag, wt, 0, BTake(r, n), BDrop(r, n))

FieldLen(tag, l) ==
  IF ~l.ok THEN FieldFail ELSE FieldBytes(tag, 2, l.rest, l.val)

FieldGroup(tag, g) ==
  IF g.ok THEN Fld(tag, 3, 0, <<>>, g.rest) ELSE FieldFail

FieldValue(tag, wt, r) ==
  IF tag = 0 \/ wt > 5 THEN FieldFail
  ELSE CASE wt = 0 -> FieldVarint(tag, DecVarint(r, 10))
         [] wt = 1 -> FieldBytes(tag, wt, r, 8)
         [] wt = 2 -> FieldLen(tag, DecVarint(r, 10))
         [] wt = 3 -> FieldGroup(tag, SkipGroup(r, tag))
         [] wt = 4 -> FieldFail
         [] wt = 5 -> FieldBytes(tag, wt, r, 4)

FieldKey(key) ==
  IF ~key.ok THEN FieldFail
  ELSE FieldValue(key.val \div 8, key.val % 8, key.rest)

ReadField(s) == FieldKey(DecVarint(s, 10))

SkipGroupNext(f, tag) ==
  IF f.ok THEN SkipGroup(f.rest, tag) ELSE FieldFail

SkipGroupKey(s, tag, key) ==
  IF ~key.ok THEN FieldFail
  ELSE IF key.val % 8 = 4
       THEN IF key.val \div 8 = tag
            THEN Fld(tag, 3, 0, <<>>, key.rest)
            ELSE FieldFail
       ELSE SkipGroupNext(ReadField(s), tag)

SkipGroup(s, tag) == SkipGroupKey(s, tag, DecVarint(s, 10))

\* str::from_utf8 on the bytes of a string field.  Every byte below 128 is
\* valid; the model holds no lead byte, so a byte of 128 or more is not.
RECURSIVE Utf8Valid(_)
Utf8Valid(s) == s = <<>> \/ (s[1][1] < 128 /\ Utf8Valid(Tail(s)))

(***************************************************************************)
(* The message dictionary (module tunnel, generated from the schema):      *)
(*   EventError      { repeated string errors = 1 }                        *)
(*   Ping            { uint64 nonce = 1 }                                  *)
(*   Data            { bytes data = 1 }                                    *)
(*   Message<D>Ok    { oneof msg { Ping ping = 1; Data data = 2 } }        *)
(*   <D>MsgOrErr     { oneof msg { Message<D>Ok ok = 1;                    *)
(*                                 EventError err = 2 } }                  *)
(* for D = Client, Server.  A message value is [v, nonce, data]; v = "None"*)
(* is an absent oneof.  An envelope is [case, ok, errors].                 *)
(***************************************************************************)
Variants == {"Ping", "Data"}

NoMsg == [v |-> "None", nonce |-> 0, data |-> <<>>]
Ping(n) == [v |-> "Ping", nonce |-> n, data |-> <<>>]
Data(d) == [v |-> "Data", nonce |-> 0, data |-> d]

NoEnv == [case |-> "none", ok |-> NoMsg, errors |-> <<>>]
EnvOk(m) == [case |-> "ok", ok |-> m, errors |-> <<>>]
EnvErr(errors) == [case |-> "err", ok |-> NoMsg, errors |-> errors]

\* prost::Message::encode: a scalar equal to its default is not written
EncPing(m) == IF m.nonce = 0 THEN <<>> ELSE Bytes(<<8>> \o EncVarint(m.nonce))

EncData(m) == IF m.data = <<>> THEN <<>> ELSE EncLenDelim(1, m.data)

EncMessageOk(m) ==
  CASE m.v = "Ping" -> EncLenDelim(1, EncPing(m))
    [] m.v = "Data" -> EncLenDelim(2, EncData(m))
    [] OTHER -> <<>>

RECURSIVE EncEventError(_)
EncEventError(errors) ==
  IF errors = <<>> THEN <<>>
  ELSE BCat(EncLenDelim(1, Head(errors)), EncEventError(Tail(errors)))

EncMsgOrErr(env) ==
  CASE env.case = "ok" -> EncLenDelim(1, EncMessageOk(env.ok))
    [] env.case = "err" -> EncLenDelim(2, EncEventError(env.errors))
    [] OTHER -> <<>>

\* prost::Message::decode / merge, per message type: Decode* loops over the
\* fields, *MergeField merges field f into the value acc decoded so far.  A
\* known field with another wire type, or any malformed field, fails the
\* whole decode.
DecOk(v) == [ok |-> TRUE, v |-> v]
DecFailMsg == [ok |-> FALSE, v |-> NoMsg]
DecFailEnv == [ok |-> FALSE, v |-> NoEnv]
DecFailErrors == [ok |-> FALSE, v |-> <<>>]

RECURSIVE DecodePing(_, _)
PingMergeField(f, acc) ==
  IF ~f.ok THEN DecFailMsg
  ELSE IF f.tag = 1
       THEN IF f.wt # 0 THEN DecFailMsg ELSE DecodePing(f.rest, Ping(f.num))
       ELSE DecodePing(f.rest, acc)

DecodePing(s, acc) ==
  IF s = <<>> THEN DecOk(acc) ELSE PingMergeField(ReadField(s), acc)

RECURSIVE DecodeData(_, _)
DataMergeField(f, acc) ==
  IF ~f.ok THEN DecFailMsg
  ELSE IF f.tag = 1
       THEN IF f.wt # 2 THEN DecFailMsg ELSE DecodeData(f.rest, Data(f.bytes))
       ELSE DecodeData(f.rest, acc)

DecodeData(s, acc) ==
  IF s = <<>> THEN DecOk(acc) ELSE DataMergeField(ReadField(s), acc)

RECURSIVE DecodeMessageOk(_, _)
\* in is the decoded oneof member, rest the bytes after the field
MessageOkSet(in, rest) ==
  IF ~in.ok THEN DecFailMsg ELSE DecodeMessageOk(rest, in.v)

MessageOkMergeField(f, acc) ==
  IF ~f.ok THEN DecFailMsg
  ELSE CASE f.tag = 1 ->
              IF f.wt # 2 THEN DecFailMsg
              ELSE MessageOkSet(DecodePing(f.bytes,
                                  IF acc.v = "Ping" THEN acc ELSE Ping(0)),
                                f.rest)
         [] f.tag = 2 ->
              IF f.wt # 2 THEN DecFailMsg
              ELSE MessageOkSet(DecodeData(f.bytes,
                                  IF acc.v = "Data" THEN acc ELSE Data(<<>>)),
                                f.rest)
         [] OTHER -> DecodeMessageOk(f.rest, acc)

DecodeMessageOk(s, acc) ==
  IF s = <<>> THEN DecOk(acc) ELSE MessageOkMergeField(ReadField(s), acc)

RECURSIVE DecodeEventError(_, _)
EventErrorMergeField(f, acc) ==
  IF ~f.ok THEN DecFailErrors
  ELSE IF f.tag = 1
       THEN IF f.wt # 2 \/ ~Utf8Valid(f.bytes) THEN DecFailErrors
            ELSE DecodeEventError(f.rest, Append(acc, f.bytes))
       ELSE DecodeEventError(f.rest, acc)

DecodeEventError(s, acc) ==
  IF s = <<>> THEN DecOk(acc) ELSE EventErrorMergeField(ReadField(s), acc)

RECURSIVE DecodeMsgOrErr(_, _)
MsgOrErrSetOk(in, rest) ==
  IF ~in.ok THEN DecFailEnv ELSE DecodeMsgOrErr(rest, EnvOk(in.v))

MsgOrErrSetErr(in, rest) ==
  IF ~in.ok THEN DecFailEnv ELSE DecodeMsgOrErr(rest, EnvErr(in.v))

MsgOrErrMergeField(f, acc) ==
  IF ~f.ok THEN DecFailEnv
  ELSE CASE f.tag = 1 ->
              IF f.wt # 2 THEN DecFailEnv
              ELSE MsgOrErrSetOk(DecodeMessageOk(f.bytes,
                                   IF acc.case = "ok" THEN acc.ok ELSE NoMsg),
                                 f.rest)
         [] f.tag = 2 ->
              IF f.wt # 2 THEN DecFailEnv
              ELSE MsgOrErrSetErr(DecodeEventError(f.bytes,
                                    IF acc.case = "err" THEN acc.errors
                                    ELSE <<>>),
                                  f.rest)
         [] OTHER -> DecodeMsgOrErr(f.rest, acc)

DecodeMsgOrErr(s, acc) ==
  IF s = <<>> THEN DecOk(acc) ELSE MsgOrErrMergeField(ReadField(s), acc)

(***************************************************************************)
(* anyhow::Error: its chain of messages, the outermost context first (the  *)
(* order of Error::chain()).  An element is a fixed label of the program   *)
(* or a text carried as bytes.                                             *)
(***************************************************************************)
Lbl(s) == [k |-> "lbl", s |-> s, b |-> <<>>]
Txt(b) == [k |-> "txt", s |-> "", b |-> b]

\* anyhow!(msg)
Anyhow(e) == <<e>>

\* err.context(c)
Context(err, c) == <<c>> \o err

\* format!("{}", e) of a chain element, as the bytes of the string
Display(e) == e.b

\* Result<T>: Ok with an envelope or a message, or Err with a chain
Ok(env, msg) == [ok |-> TRUE, env |-> env, msg |-> msg, err |-> <<>>]
Err(chain) == [ok |-> FALSE, env |-> NoEnv, msg |-> NoMsg, err |-> chain]

IoError == Lbl("io::Error")
DecodeError == Lbl("prost::DecodeError")

(***************************************************************************)
(* Tunnel::send: the buffer handed to write_all.                           *)
(***************************************************************************)
\* faulty variant: the length written big-endian
SendBufferBigEndian(payload) ==
  BCat(Bytes([i \in 1..8 |-> WriteU64(BLen(payload))[9 - i]]), payload)

\* proto.rs:56-61: 8 bytes of length, then the encoded request
SendBuffer(payload) == BCat(Bytes(WriteU64(BLen(payload))), payload)

\* the buffer Tunnel::send builds for envelope req
TunnelSendBuffer(req) == SendBuffer(EncMsgOrErr(req))

(***************************************************************************)
(* Tunnel::recv, after the payload was read: proto.rs:85-97.               *)
(***************************************************************************)
\* for error in msg.errors { err = err.context(error) }
RECURSIVE ContextEach(_, _)
ContextEach(err, errors) ==
  IF errors = <<>> THEN err
  ELSE ContextEach(Context(err, Txt(Head(errors))), Tail(errors))

\* proto.rs:89-95: the payload did not decode as T; msg is its decode as
\* EventError
TunnelDecodeError(msg) ==
  IF ~msg.ok THEN Err(Context(Anyhow(DecodeError), Lbl("Cannot decode pkt")))
  ELSE Err(ContextEach(Anyhow(Lbl("Error from server")), msg.v))

\* proto.rs:85-87: pkt is the payload's decode as T
TunnelDecodePkt(pkt, req_buffer) ==
  IF pkt.ok THEN Ok(pkt.v, NoMsg)
  ELSE TunnelDecodeError(DecodeEventError(req_buffer, <<>>))

TunnelDecode(req_buffer) ==
  TunnelDecodePkt(DecodeMsgOrErr(req_buffer, NoEnv), req_buffer)

(***************************************************************************)
(* recv_client_msg_or_error / recv_server_msg_or_error                     *)
(***************************************************************************)
RECURSIVE Reverse(_)
Reverse(s) == IF s = <<>> THEN <<>> ELSE Append(Reverse(Tail(s)), Head(s))

EmptyPkt(d) == IF d = "client" THEN "Empty pkt from client" ELSE "Empty pkt from server"
BadPkt(d) == IF d = "client" THEN "Bad pkt from client" ELSE "Bad pkt from server"
ErrorFrom(d) == IF d = "client" THEN "Error from client:" ELSE "Error from server:"

\* faulty variant: an Ok case without inner message yields a default message
RecvMsgOrErrorDefault(d, t) ==
  IF ~t.ok THEN Err(Context(t.err, Lbl("Error in recv pkt")))
  ELSE IF t.env.case = "ok" THEN Ok(NoEnv, t.env.ok)
       ELSE Err(Anyhow(Lbl(BadPkt(d))))

\* faulty variant: the causes of an Err envelope are applied in listed order
RecvMsgOrErrorForward(d, t) ==
  IF ~t.ok THEN Err(Context(t.err, Lbl("Error in recv pkt")))
  ELSE CASE t.env.case = "ok" ->
              IF t.env.ok.v # "None" THEN Ok(NoEnv, t.env.ok)
              ELSE Err(Anyhow(Lbl(EmptyPkt(d))))
         [] t.env.case = "err" ->
              Err(Context(ContextEach(Anyhow(Lbl("[end err]")), t.env.errors),
                          Lbl(ErrorFrom(d))))
         [] OTHER -> Err(Anyhow(Lbl(BadPkt(d))))

\* t is the result of Tunnel::recv
RecvMsgOrError(d, t) ==
  IF ~t.ok THEN Err(Context(t.err, Lbl("Error in recv pkt")))
  ELSE CASE t.env.case = "ok" ->
              IF t.env.ok.v # "None" THEN Ok(NoEnv, t.env.ok)
              ELSE Err(Anyhow(Lbl(EmptyPkt(d))))
         [] t.env.case = "err" ->
              Err(Context(ContextEach(Anyhow(Lbl("[end err]")),
                                      Reverse(t.env.errors)),
                          Lbl(ErrorFrom(d))))
         [] OTHER -> Err(Anyhow(Lbl(BadPkt(d))))

(***************************************************************************)
(* recv_client_msg_type! / recv_server_msg_type!                           *)
(***************************************************************************)
\* faulty variant: another variant yields the default value of the expected one
RecvMsgTypeDefault(name, m) ==
  IF ~m.ok THEN Err(Context(m.err, Lbl("Received error msg")))
  ELSE IF m.msg.v = name THEN Ok(NoEnv, m.msg)
       ELSE Ok(NoEnv, IF name = "Ping" THEN Ping(0) ELSE Data(<<>>))

\* faulty variant: a failure of the receive path is returned as it is
RecvMsgTypeBare(name, m) ==
  IF ~m.ok THEN Err(m.err)
  ELSE IF m.msg.v = name THEN Ok(NoEnv, m.msg)
       ELSE Err(Anyhow(Lbl("Bad packet type")))

\* m is the result of recv_*_msg_or_error, name the expected variant
RecvMsgType(name, m) ==
  IF ~m.ok THEN Err(Context(m.err, Lbl("Received error msg")))
  ELSE IF m.msg.v = name THEN Ok(NoEnv, m.msg)
       ELSE Err(Anyhow(Lbl("Bad packet type")))

(***************************************************************************)
(* send_*_msg_type! and send_*_err_event: the envelope built, and what is  *)
(* returned given the result of Tunnel::send.                              *)
(***************************************************************************)
\* proto.rs:151-156, 247-252
MsgEnvelope(msg) == EnvOk(msg)

\* faulty variant: every cause of the chain is sent
ErrEnvelopeAll(err) == EnvErr([i \in 1..Len(err) |-> Display(err[i])])

\* faulty variant: the root cause (the last of the chain) is sent
ErrEnvelopeInnermost(err) == EnvErr(<<Display(err[Len(err)])>>)

\* proto.rs:103-111, 207-215: err.chain().next() is the outermost error
ErrEnvelope(err) ==
  EnvErr(IF err # <<>> THEN <<Display(Head(err))>> ELSE <<>>)

\* anyhow!("Error in send: Peer has closed connection? ({:?})", err)
ErrorInSendFmt(sendErr) ==
  Anyhow(Lbl("Error in send: Peer has closed connection? (Cannot write pkt)"))

\* proto.rs:157: Tunnel::send(..).context("Error in send: ...")
SendServerMsgRet(sent) ==
  IF sent.ok THEN sent
  ELSE Err(Context(sent.err, Lbl("Error in send: Peer has closed connection?")))

\* proto.rs:253-254: Tunnel::send(..).map_err(|err| anyhow!(..., err))
SendClientMsgRet(sent) ==
  IF sent.ok THEN sent ELSE Err(ErrorInSendFmt(sent.err))

\* faulty variant: the original error is returned whether or not the send failed
SendErrEventRetOriginal(sent, err) == err

\* proto.rs:113-117, 217-221
SendErrEventRet(sent, err) ==
  IF ~sent.ok THEN ErrorInSendFmt(sent.err) ELSE err

(***************************************************************************)
(* Inputs.                                                                 *)
(***************************************************************************)
SeqsUpTo(S, n) == UNION {[1..k -> S] : k \in 0..n}

\* texts of error contexts: "a", "\x08" and the empty string
CauseTexts == {Bytes(<<97>>), Bytes(<<8>>), <<>>}

\* local errors given to send_*_err_event: a chain is never empty
Chains ==
  {[i \in 1..Len(c) |-> Txt(c[i])] : c \in SeqsUpTo(CauseTexts, MaxChain) \ {<<>>}}

\* Data lengths: empty, short, the longest whose frame payload is
\* MAX_PACKET_LEN bytes (15 bytes of keys and lengths), and one more
DataLens == {0, 1, MAX_PACKET_LEN - 15, MAX_PACKET_LEN - 14}

Msgs == {Ping(0), Ping(42)} \cup {Data(Fill(1, n)) : n \in DataLens}

\* envelopes a peer built on another implementation can frame
PeerEnvelopes ==
  {NoEnv, EnvOk(NoMsg)} \cup {EnvErr(es) : es \in SeqsUpTo(CauseTexts, MaxCauses)}

\* the 8 header bytes of a raw chunk: small lengths, the bound and beyond,
\* 200 MiB, 2^32, 2^32 + 2 and 2^64 - 1
RawHeaders ==
  {WriteU64(n) : n \in {0, 1, 2, MAX_PACKET_LEN, MAX_PACKET_LEN + 1, 209715200}}
  \cup {<<0, 0, 0, 0, 1, 0, 0, 0>>, <<2, 0, 0, 0, 1, 0, 0, 0>>,
        [i \in 1..8 |-> 255]}

RawAlphabet == {0, 8, 10}

RawBodies == SeqsUpTo(RawAlphabet, MaxRawLen)

(***************************************************************************)
(* State.                                                                  *)
(***************************************************************************)
VARIABLES
  wordBits, \* width of usize on the receiver's target: 32 or 64
  dir,      \* the direction whose functions run on the stream
  stream,   \* bytes written to the stream and not yet read
  open,     \* FALSE once the stream is closed or broken
  chunk,    \* what the unread bytes were written as (history)
  pc,       \* the receiver: "idle", "hdr" (in recv, before the header
            \* read), "body" (length accepted, before the payload read),
            \* on Stdio also "decode" (payload read, before the decode)
  expect,   \* $name of the recv_*_msg_type! call in progress
  buffer,   \* the 8 header bytes read (proto.rs:72-73)
  len,      \* proto.rs:76-77
  last,     \* the last call completed, its inputs and results (history)
  stdout,   \* Stdio: bytes standard output accepted and has not flushed
  wpc,      \* the sender on Stdio: "idle", or "write_all" (in Tunnel::send)
  wbuf,     \* the bytes write_all has still to write
  snd,      \* the Tunnel::send on Stdio in progress or completed (history)
  rbuf,     \* the bytes the read_exact in progress has read
  sentReqs, \* the requests whose frames were handed to write_all (history)
  nrecv,    \* the number of Tunnel::recv calls made on Stdio (history)
  sio       \* the last call of Stdio::write or Stdio::read (history)

\* the state of two processes joined by a pipe through Stdio
pipeVars == <<stdout, wpc, wbuf, snd, rbuf, sentReqs, nrecv, sio>>

vars ==
  <<wordBits, dir, stream, open, chunk, pc, expect, buffer, len, last,
    stdout, wpc, wbuf, snd, rbuf, sentReqs, nrecv, sio>>

NoChunk == [src |-> "none", msg |-> NoMsg, chain |-> <<>>, n |-> 0]

NoLast ==
  [op |-> "none", msg |-> NoMsg, chain |-> <<>>, buf |-> <<>>, nwrites |-> 0,
   wrote |-> 0,
   expect |-> "None", hdr |-> <<>>, body |-> <<>>, nread |-> 0, nreads |-> 0,
   t |-> Ok(NoEnv, NoMsg), m |-> Ok(NoEnv, NoMsg), ret |-> Ok(NoEnv, NoMsg),
   chunk |-> NoChunk]

\* no Tunnel::send on Stdio yet
NoSnd ==
  [req |-> NoEnv, enc |-> TRUE, buf |-> <<>>, nwrites |-> 0, wrote |-> 0,
   flushed |-> 0, done |-> FALSE, ret |-> Ok(NoEnv, NoMsg)]

\* no call of Stdio yet
NoSio == [op |-> "none", nwrite |-> 0, nflush |-> 0, nread |-> 0, ok |-> TRUE]

Init ==
  /\ wordBits \in {32, 64}
  /\ dir \in {"client", "server"}
  /\ stream = <<>>
  /\ open = TRUE
  /\ chunk = NoChunk
  /\ pc = "idle"
  /\ expect = "None"
  /\ buffer = <<>>
  /\ len = 0
  /\ last = NoLast
  /\ stdout = <<>>
  /\ wpc = "idle"
  /\ wbuf = <<>>
  /\ snd = NoSnd
  /\ rbuf = <<>>
  /\ sentReqs = <<>>
  /\ nrecv = 0
  /\ sio = NoSio

(***************************************************************************)
(* The stream: write_all.  One exchange is in flight at a time: a chunk is *)
(* written when the bytes of the one before have been read.                *)
(***************************************************************************)
CanWrite == stream = <<>> /\ pc # "body"

\* where a write_all that fails may have stopped
PartialCuts(buf) == {k \in {0, 3, 8, BLen(buf) - 1} : k < BLen(buf)}

\* what write_all(buf) can do: write everything, or fail after n bytes
WriteOutcomes(buf) ==
  IF open
  THEN {[ok |-> TRUE, n |-> BLen(buf)]}
       \cup {[ok |-> FALSE, n |-> k] : k \in PartialCuts(buf)}
  ELSE {[ok |-> FALSE, n |-> 0]}

\* the effect of write_all(buf) with outcome w on the stream
WriteAll(buf, w, src, msg, chain) ==
  /\ stream' = BCat(stream, BTake(buf, w.n))
  /\ open' = (open /\ w.ok)
  /\ chunk' = IF w.n = 0 THEN chunk
              ELSE [src |-> IF w.ok THEN src ELSE "partial",
                    msg |-> msg, chain |-> chain, n |-> w.n]

\* Tunnel::send: its result for outcome w of the one write_all
TunnelSendRet(w) ==
  IF w.ok THEN Ok(NoEnv, NoMsg)
  ELSE Err(Context(Anyhow(IoError), Lbl("Cannot write pkt")))

\* faulty variant: the bound compared with >= instead of >
LenTooBigOrEqual(l) == ~DigitsGt(WriteU64(MAX_PACKET_LEN), l, 8)

\* proto.rs:78: len > MAX_PACKET_LEN
LenTooBig(l) == DigitsGt(l, WriteU64(MAX_PACKET_LEN), 8)

(***************************************************************************)
(* Sender operations.                                                      *)
(***************************************************************************)
\* Tunnel::send(sock, req) handed buf to write_all, with outcome w; the
\* caller returns ret
SendCall(op, buf, w, src, msg, chain, ret) ==
  /\ WriteAll(buf, w, src, msg, chain)
  /\ last' = [NoLast EXCEPT !.op = op, !.msg = msg, !.chain = chain,
                !.buf = buf, !.nwrites = 1, !.wrote = w.n,
                !.t = TunnelSendRet(w), !.ret = ret]
  /\ UNCHANGED <<wordBits, dir, pc, expect, buffer, len>>
  /\ UNCHANGED pipeVars

SendClientMsgBuf(buf, msg) ==
  \E w \in WriteOutcomes(buf) :
    SendCall("send_msg", buf, w, "msg", msg, <<>>,
             SendClientMsgRet(TunnelSendRet(w)))

\* send_client_msg_type!(sock, msg, name)
SendClientMsgType ==
  /\ dir = "client"
  /\ CanWrite
  /\ \E msg \in Msgs :
       SendClientMsgBuf(TunnelSendBuffer(MsgEnvelope(msg)), msg)

SendServerMsgBuf(buf, msg) ==
  \E w \in WriteOutcomes(buf) :
    SendCall("send_msg", buf, w, "msg", msg, <<>>,
             SendServerMsgRet(TunnelSendRet(w)))

\* send_server_msg_type!(sock, msg, name)
SendServerMsgType ==
  /\ dir = "server"
  /\ CanWrite
  /\ \E msg \in Msgs :
       SendServerMsgBuf(TunnelSendBuffer(MsgEnvelope(msg)), msg)

SendErrBuf(buf, err) ==
  \E w \in WriteOutcomes(buf) :
    SendCall("send_err", buf, w, "err", NoMsg, err,
             Err(SendErrEventRet(TunnelSendRet(w), err)))

\* send_client_err_event(sock, err)
SendClientErrEvent ==
  /\ dir = "client"
  /\ CanWrite
  /\ \E err \in Chains : SendErrBuf(TunnelSendBuffer(ErrEnvelope(err)), err)

\* send_server_err_event(sock, err)
SendServerErrEvent ==
  /\ dir = "server"
  /\ CanWrite
  /\ \E err \in Chains : SendErrBuf(TunnelSendBuffer(ErrEnvelope(err)), err)

(***************************************************************************)
(* Receiver operations.                                                    *)
(***************************************************************************)
\* the unread bytes are exactly one chunk, or none
Aligned == BLen(stream) = chunk.n

RecvMsgTypeCall ==
  /\ pc = "idle"
  /\ Aligned
  /\ \E name \in Variants : expect' = name
  /\ pc' = "hdr"
  /\ last' = NoLast
  /\ UNCHANGED <<wordBits, dir, stream, open, chunk, buffer, len>>
  /\ UNCHANGED pipeVars

\* recv_client_msg_type!(sock, name): entry, up to the first read
RecvClientMsgType == dir = "client" /\ RecvMsgTypeCall

\* recv_server_msg_type!(sock, name): entry, up to the first read
RecvServerMsgType == dir = "server" /\ RecvMsgTypeCall

\* Tunnel::recv returned t and recv_*_msg_or_error returned m:
\* recv_*_msg_type! returns
RecvReturnTyped(t, m, hdr, body, nread, nreads) ==
  /\ last' = [NoLast EXCEPT !.op = "recv", !.expect = expect, !.hdr = hdr,
                !.body = body, !.nread = nread, !.nreads = nreads,
                !.t = t, !.m = m, !.ret = RecvMsgType(expect, m),
                !.chunk = chunk]
  /\ chunk' = IF nread = chunk.n THEN NoChunk ELSE chunk
  /\ pc' = "idle"
  /\ expect' = "None"
  /\ buffer' = <<>>
  /\ len' = 0

\* Tunnel::recv returns t
RecvReturn(t, hdr, body, nread, nreads) ==
  RecvReturnTyped(t, RecvMsgOrError(dir, t), hdr, body, nread, nreads)

ReadError == Err(Context(Anyhow(IoError), Lbl("Cannot read pkt")))

\* faulty variant: the bytes read before the stream ended are decoded
ShortReadDecode(partial) == TunnelDecode(partial)

\* read_exact failed after reading `partial`: .context("Cannot read pkt")?
ShortRead(partial) == ReadError

\* proto.rs:75-80, on the 8 bytes read and their value as usize
HeaderRead(hdr, l) ==
  IF LenTooBig(l)
  THEN RecvReturn(Err(Anyhow(Lbl("Packet too big!"))), hdr, <<>>, 8, 1)
  ELSE /\ pc' = "body"
       /\ buffer' = hdr
       /\ len' = DigitsVal(l, 1)
       /\ last' = NoLast
       /\ UNCHANGED <<chunk, expect>>

HeaderBytes(hdr) == HeaderRead(hdr, AsUsize(hdr, wordBits))

\* Tunnel::recv, proto.rs:72-80: read_exact of the header blocks until 8
\* bytes are there or the stream has ended
TunnelRecvHeader ==
  /\ pc = "hdr"
  /\ BLen(stream) >= 8 \/ ~open
  /\ IF BLen(stream) < 8
     THEN /\ stream' = <<>>
          /\ RecvReturn(ShortRead(stream), <<>>, <<>>, BLen(stream), 1)
     ELSE /\ stream' = BDrop(stream, 8)
          /\ HeaderBytes(Expand(BTake(stream, 8)))
  /\ UNCHANGED <<wordBits, dir, open>>
  /\ UNCHANGED pipeVars

PayloadRead(req_buffer) ==
  RecvReturn(TunnelDecode(req_buffer), buffer, req_buffer, 8 + len, 2)

\* Tunnel::recv, proto.rs:81-97: read_exact of len bytes, then the decode
TunnelRecvBody ==
  /\ pc = "body"
  /\ BLen(stream) >= len \/ ~open
  /\ IF BLen(stream) < len
     THEN /\ stream' = <<>>
          /\ RecvReturn(ShortRead(stream), buffer, <<>>, 8 + BLen(stream), 2)
     ELSE /\ stream' = BDrop(stream, len)
          /\ PayloadRead(BTake(stream, len))
  /\ UNCHANGED <<wordBits, dir, open>>
  /\ UNCHANGED pipeVars

(***************************************************************************)
(* The environment: the other end of the stream.                           *)
(***************************************************************************)
PeerWrite(bytes, src) ==
  /\ bytes # <<>>
  /\ stream' = bytes
  /\ chunk' = [src |-> src, msg |-> NoMsg, chain |-> <<>>, n |-> BLen(bytes)]
  /\ last' = NoLast
  /\ UNCHANGED <<wordBits, dir, open, pc, expect, buffer, len>>
  /\ UNCHANGED pipeVars

\* a peer frames an envelope of any shape
PeerWritesEnvelope ==
  /\ open /\ CanWrite
  /\ \E env \in PeerEnvelopes : PeerWrite(SendBuffer(EncMsgOrErr(env)), "env")

\* a peer frames a bare EventError instead of an envelope
PeerWritesEventError ==
  /\ open /\ CanWrite
  /\ \E es \in SeqsUpTo(CauseTexts, MaxCauses) \ {<<>>} :
    PeerWrite(SendBuffer(EncEventError(es)), "bare")

\* arbitrary bytes: a header (or its first 3 bytes) and a body of any length
PeerWritesRaw ==
  /\ open /\ CanWrite
  /\ \E hdr \in RawHeaders, body \in RawBodies, short \in BOOLEAN :
    PeerWrite(IF short THEN Bytes(SubSeq(hdr, 1, 3))
              ELSE BCat(Bytes(hdr), Bytes(body)), "raw")

\* the stream ends: the peer closes it, or it breaks
StreamClose ==
  /\ open
  /\ open' = FALSE
  /\ last' = NoLast
  /\ UNCHANGED <<wordBits, dir, stream, chunk, pc, expect, buffer, len>>
  /\ UNCHANGED pipeVars

\* the caller drops the stream and opens a new one
Reconnect ==
  /\ pc = "idle"
  /\ ~open \/ ~Aligned
  /\ stream' = <<>>
  /\ open' = TRUE
  /\ chunk' = NoChunk
  /\ last' = NoLast
  /\ UNCHANGED <<wordBits, dir, pc, expect, buffer, len>>
  /\ UNCHANGED pipeVars

Next ==
  \/ SendClientMsgType
  \/ SendServerMsgType
  \/ SendClientErrEvent
  \/ SendServerErrEvent
  \/ RecvClientMsgType
  \/ RecvServerMsgType
  \/ TunnelRecvHeader
  \/ TunnelRecvBody
  \/ PeerWritesEnvelope
  \/ PeerWritesEventError
  \/ PeerWritesRaw
  \/ StreamClose
  \/ Reconnect

Spec == Init /\ [][Next]_vars

(***************************************************************************)
(* Stdio: two processes joined by a pipe.  The sender's Stdio writes to    *)
(* its standard output, whose flushed bytes are `stream`; the receiver's   *)
(* Stdio reads them from its standard input.  write_all and read_exact     *)
(* are the loops of the standard library over Stdio::write and             *)
(* Stdio::read.                                                             *)
(***************************************************************************)
\* frames sent, and Tunnel::recv calls made, on one pipe
MaxFrames == 2

\* write calls of one write_all up to which a write can be interrupted
MaxInterrupted == 1

EncodeError == Lbl("prost::EncodeError")

\* the requests sent through Stdio
PipeReqs == {EnvOk(Ping(42)), EnvErr(<<Bytes(<<97>>)>>)}

\* req.encode(&mut req_buf): it fails when the buffer cannot take the
\* encoding (fits = FALSE), the one failure prost's encode has
ProstEncode(req, fits) ==
  IF fits THEN DecOk(EncMsgOrErr(req)) ELSE [ok |-> FALSE, v |-> <<>>]

\* faulty variant: the header is written before the request is encoded
SendWritesHeaderFirst(req, enc) ==
  IF enc.ok THEN SendBuffer(enc.v)
  ELSE Bytes(WriteU64(BLen(EncMsgOrErr(req))))

\* proto.rs:56-63: the bytes Tunnel::send hands to write_all; `?` on the
\* result of encode returns before any write
SendWrites(req, enc) == IF enc.ok THEN SendBuffer(enc.v) ELSE <<>>

\* proto.rs:60: .context("Cannot encode pkt")
EncodeFailed == Err(Context(Anyhow(EncodeError), Lbl("Cannot encode pkt")))

\* proto.rs:63: .context("Cannot write pkt")
WriteFailed == Err(Context(Anyhow(IoError), Lbl("Cannot write pkt")))

SendBegin(req, enc, bytes) ==
  /\ wbuf' = bytes
  /\ wpc' = IF bytes = <<>> THEN "idle" ELSE "write_all"
  /\ snd' = [NoSnd EXCEPT !.req = req, !.enc = enc.ok, !.buf = bytes,
               !.done = (bytes = <<>>),
               !.ret = IF enc.ok THEN Ok(NoEnv, NoMsg) ELSE EncodeFailed]
  /\ sentReqs' = IF enc.ok THEN Append(sentReqs, req) ELSE sentReqs
  /\ UNCHANGED <<stream, open, stdout, sio>>

SendEncoded(req, enc) == SendBegin(req, enc, SendWrites(req, enc))

\* Tunnel::send(stream, req) on Stdio, proto.rs:56-61: up to write_all
PipeTunnelSend ==
  /\ wpc = "idle"
  /\ Len(sentReqs) < MaxFrames
  /\ \E req \in PipeReqs, fits \in BOOLEAN :
       SendEncoded(req, ProstEncode(req, fits))
  /\ UNCHANGED <<wordBits, dir, chunk, pc, expect, buffer, len, last, rbuf,
                 nrecv>>

\* how many bytes of buf one write can accept: none, a part, all
WriteCuts(buf) == {k \in {0, 3, BLen(buf)} : k <= BLen(buf)}

\* std::io::stdout().write(buf): n bytes accepted into the buffer of
\* standard output, or an interruption, or another error
StdoutWriteOutcomes(buf) ==
  {[k |-> "ok", n |-> n] : n \in WriteCuts(buf)}
    \cup {[k |-> "err", n |-> 0]}
    \cup (IF open /\ snd.nwrites < MaxInterrupted
          THEN {[k |-> "interrupted", n |-> 0]} ELSE {})

\* the bytes standard output holds after the write with outcome o
Pending(o) == BCat(stdout, IF o.k = "ok" THEN BTake(wbuf, o.n) ELSE <<>>)

\* std::io::stdout().flush(): with nothing held it succeeds; with bytes held
\* it writes them to the pipe, which fails when the pipe is closed and may
\* fail otherwise
FlushOutcomes(pending) ==
  {f \in BOOLEAN : /\ f => (pending = <<>> \/ open)
                   /\ ~f => pending # <<>>}

\* faulty variant: standard output is flushed only when the write succeeded
StdioFlushesOnSuccess(o) == o.k = "ok"

\* proto.rs:31-32: self.flush() follows the write whatever it returned
StdioFlushes(o) == TRUE

\* proto.rs:32-33: `self.flush()?; ret`
StdioWriteRet(o, flushed, f) ==
  IF flushed /\ ~f THEN [k |-> "err", n |-> 0] ELSE o

\* write_all ends on an error other than an interruption, and on Ok(0)
WriteAllFails(r) == r.k = "err" \/ (r.k = "ok" /\ r.n = 0)

\* Stdio::write(wbuf), proto.rs:30-34: the write had outcome o, the flush f;
\* a write_all that fails leaves the pipe broken
StdioWrite(o, f, pending) ==
  /\ stdout' = IF StdioFlushes(o) /\ f THEN <<>> ELSE pending
  /\ stream' = IF StdioFlushes(o) /\ f THEN BCat(stream, pending) ELSE stream
  /\ open' = (open /\ ~WriteAllFails(StdioWriteRet(o, StdioFlushes(o), f)))
  /\ sio' = [op |-> "write", nwrite |-> 1,
             nflush |-> IF StdioFlushes(o) THEN 1 ELSE 0, nread |-> 0,
             ok |-> StdioWriteRet(o, StdioFlushes(o), f).k = "ok"]

\* one turn of write_all's loop: Stdio::write returned r
WriteAllStep(r, o, f, pending) ==
  /\ snd' = [snd EXCEPT
               !.nwrites = @ + 1,
               !.wrote = @ + (IF o.k = "ok" THEN o.n ELSE 0),
               !.flushed = @ + (IF StdioFlushes(o) /\ f THEN BLen(pending)
                                ELSE 0),
               !.done = WriteAllFails(r),
               !.ret = IF WriteAllFails(r) THEN WriteFailed ELSE @]
  /\ wbuf' = IF WriteAllFails(r) THEN <<>>
             ELSE IF r.k = "ok" THEN BDrop(wbuf, r.n) ELSE wbuf
  /\ wpc' = IF WriteAllFails(r) THEN "idle" ELSE "write_all"

StdioWriteCall(o, f) ==
  /\ StdioWrite(o, f, Pending(o))
  /\ WriteAllStep(StdioWriteRet(o, StdioFlushes(o), f), o, f, Pending(o))

\* Tunnel::send on Stdio, proto.rs:63: one call of Stdio::write by write_all
PipeStdioWrite ==
  /\ wpc = "write_all"
  /\ wbuf # <<>>
  /\ \E o \in StdoutWriteOutcomes(wbuf) :
       \E f \in FlushOutcomes(Pending(o)) : StdioWriteCall(o, f)
  /\ UNCHANGED <<wordBits, dir, chunk, pc, expect, buffer, len, last, rbuf,
                 nrecv, sentReqs>>

\* Tunnel::send on Stdio, proto.rs:63-64: write_all has written everything
PipeSendReturn ==
  /\ wpc = "write_all"
  /\ wbuf = <<>>
  /\ wpc' = "idle"
  /\ snd' = [snd EXCEPT !.done = TRUE]
  /\ UNCHANGED <<wordBits, dir, stream, open, chunk, pc, expect, buffer, len,
                 last, stdout, wbuf, rbuf, sentReqs, nrecv, sio>>

\* recv_*_msg_type!(Stdio, name): entry, up to the first read
PipeTunnelRecv ==
  /\ pc = "idle"
  /\ nrecv < MaxFrames
  /\ expect' = "Ping"
  /\ pc' = "hdr"
  /\ rbuf' = <<>>
  /\ nrecv' = nrecv + 1
  /\ last' = NoLast
  /\ UNCHANGED <<wordBits, dir, stream, open, chunk, buffer, len, stdout, wpc,
                 wbuf, snd, sentReqs, sio>>

\* std::io::stdin().read(buf) for a buf of `want` bytes: at least one byte
\* and at most what the pipe holds (here 3 bytes, or all it can), or 0 at
\* the end of the pipe
StdinReadLens(want) ==
  IF stream = <<>> THEN {0}
  ELSE {k \in {3, want, BLen(stream)} : k <= want /\ k <= BLen(stream)}

\* Stdio::read(buf), proto.rs:41-43: n bytes come from standard input
StdioRead(n) ==
  /\ stream' = BDrop(stream, n)
  /\ sio' = [op |-> "read", nwrite |-> 0, nflush |-> 0, nread |-> 1,
             ok |-> TRUE]

\* read_exact of the header: `got` has been read, the last read returned n
PipeHeaderGot(n, got) ==
  IF n = 0
  THEN /\ rbuf' = <<>>
       /\ RecvReturn(ShortRead(got), <<>>, <<>>, BLen(got), 1)
  ELSE IF BLen(got) < 8
       THEN /\ rbuf' = got
            /\ UNCHANGED <<chunk, pc, expect, buffer, len, last>>
       ELSE /\ rbuf' = <<>>
            /\ HeaderBytes(Expand(got))

\* Tunnel::recv on Stdio, proto.rs:72-80: one call of Stdio::read by the
\* read_exact of the header, which blocks while the pipe is open and empty
PipeRecvHeader ==
  /\ pc = "hdr"
  /\ nrecv > 0
  /\ stream # <<>> \/ ~open
  /\ \E n \in StdinReadLens(8 - BLen(rbuf)) :
       /\ StdioRead(n)
       /\ PipeHeaderGot(n, BCat(rbuf, BTake(stream, n)))
  /\ UNCHANGED <<wordBits, dir, open, stdout, wpc, wbuf, snd, sentReqs, nrecv>>

\* read_exact of the payload: `got` has been read, the last read returned n
PipePayloadGot(n, got) ==
  IF BLen(got) = len
  THEN /\ rbuf' = got
       /\ pc' = "decode"
       /\ UNCHANGED <<chunk, expect, buffer, len, last>>
  ELSE IF n = 0
       THEN /\ rbuf' = <<>>
            /\ RecvReturn(ShortRead(got), buffer, <<>>, 8 + BLen(got), 2)
       ELSE /\ rbuf' = got
            /\ UNCHANGED <<chunk, pc, expect, buffer, len, last>>

\* Tunnel::recv on Stdio, proto.rs:81-84: one call of Stdio::read by the
\* read_exact of the payload (none for an empty payload)
PipeRecvBody ==
  /\ pc = "body"
  /\ nrecv > 0
  /\ len = 0 \/ stream # <<>> \/ ~open
  /\ IF len = 0
     THEN /\ PipePayloadGot(0, <<>>)
          /\ UNCHANGED <<stream, sio>>
     ELSE \E n \in StdinReadLens(len - BLen(rbuf)) :
            /\ StdioRead(n)
            /\ PipePayloadGot(n, BCat(rbuf, BTake(stream, n)))
  /\ UNCHANGED <<wordBits, dir, open, stdout, wpc, wbuf, snd, sentReqs, nrecv>>

\* Tunnel::recv on Stdio, proto.rs:85-97: the decode of the payload read,
\* and the return of recv_*_msg_type!
PipeRecvDecode ==
  /\ pc = "decode"
  /\ nrecv > 0
  /\ rbuf' = <<>>
  /\ PayloadRead(rbuf)
  /\ UNCHANGED <<wordBits, dir, stream, open, stdout, wpc, wbuf, snd,
                 sentReqs, nrecv, sio>>

\* the pipe is closed, or breaks
PipeClose ==
  /\ open
  /\ open' = FALSE
  /\ UNCHANGED <<wordBits, dir, stream, chunk, pc, expect, buffer, len, last>>
  /\ UNCHANGED pipeVars

NextPipe ==
  \/ PipeTunnelSend
  \/ PipeStdioWrite
  \/ PipeSendReturn
  \/ PipeTunnelRecv
  \/ PipeRecvHeader
  \/ PipeRecvBody
  \/ PipeRecvDecode
  \/ PipeClose

\* the labels of the direction play no part on the pipe
InitPipe == Init /\ dir = "server"

SpecPipe == InitPipe /\ [][NextPipe]_vars

\* the receiver's thread runs, and the pipe delivers or ends at last.  The
\* last conjunct is WF_vars(PipeRecvDecode) stated by its enabling condition:
\* the step is enabled exactly when pc = "decode" and leaves pc = "idle".
SpecPipeFair ==
  /\ SpecPipe
  /\ WF_vars(PipeRecvHeader)
  /\ WF_vars(PipeRecvBody)
  /\ WF_vars(PipeClose)
  /\ []<>(pc # "decode")

(***************************************************************************)
(* Properties.  `last` is the call that completed last; for a recv,        *)
(* last.chunk is what the bytes it read had been written as.               *)
(***************************************************************************)
MaxDigits == WriteU64(MAX_PACKET_LEN)

ErrorInSend ==
  <<Lbl("Error in send: Peer has closed connection? (Cannot write pkt)")>>

\* a recv_*_msg_type! that read the bytes written as src
RecvOf(src) == last.op = "recv" /\ last.chunk.src = src

\* a recv of a frame written in full by send_*_msg_type!, the variant
\* expected being the variant sent
RecvOfSentMsg == RecvOf("msg") /\ last.expect = last.chunk.msg.v

\* C1 as stated: a message of any encoded size sent with send_*_msg_type! and
\* received with recv_*_msg_type! for the same variant comes back Ok and
\* equal to the message sent.
C1_RoundTripAnySize ==
  RecvOfSentMsg => (last.ret.ok /\ last.ret.msg = last.chunk.msg)

\* C1 amended: the round trip holds for every message whose encoded envelope
\* (the frame without its 8 header bytes) is at most MAX_PACKET_LEN bytes.
C1_RoundTrip ==
  (RecvOfSentMsg /\ last.chunk.n - 8 <= MAX_PACKET_LEN)
    => (last.ret.ok /\ last.ret.msg = last.chunk.msg)

\* a Data message whose frame payload is exactly MAX_PACKET_LEN bytes made
\* the round trip
C1_Witness ==
  /\ RecvOfSentMsg
  /\ last.chunk.n - 8 = MAX_PACKET_LEN
  /\ last.ret.ok
  /\ last.ret.msg = last.chunk.msg

\* C2: whenever the 8 header bytes read decode to a length above
\* MAX_PACKET_LEN, Tunnel::recv fails with "Packet too big!" having consumed
\* the 8 header bytes and issued no further read.
C2_LengthBound ==
  (last.op = "recv" /\ last.hdr # <<>> /\ DigitsGt(last.hdr, MaxDigits, 8))
    => /\ last.t.err = <<Lbl("Packet too big!")>>
       /\ last.nread = 8
       /\ last.nreads = 1

C3_Frame(buf, outer) ==
  /\ buf = SendBuffer(EncMsgOrErr(EnvErr(<<outer>>)))
  /\ DecodeMsgOrErr(BDrop(buf, 8), NoEnv) = DecOk(EnvErr(<<outer>>))

\* C3: the frame send_*_err_event hands to the stream is the Err envelope
\* whose cause list is the outermost cause alone: it is a function of the
\* outermost cause only, and no inner cause is in it.
C3_OnlyOutermostOnWire ==
  last.op = "send_err" => C3_Frame(last.buf, last.chain[1].b)

\* an error of three causes, the inner two different from the outermost, was
\* sent
C3_Witness ==
  /\ last.op = "send_err"
  /\ last.wrote = BLen(last.buf)
  /\ Len(last.chain) = 3
  /\ last.chain[2] # last.chain[1]
  /\ last.chain[3] # last.chain[1]

C4_Seen(sent, got) ==
  /\ last.t.ok
  /\ last.t.env = EnvErr(<<sent[1].b>>)
  /\ ~last.m.ok
  /\ last.m.err = <<Lbl("Error from server:"), sent[1], Lbl("[end err]")>>
  /\ ~last.ret.ok
  /\ got = <<Lbl("Received error msg"), Lbl("Error from server:"), sent[1],
             Lbl("[end err]")>>
  /\ \A i \in 2..Len(sent) :
       sent[i] # sent[1] => \A j \in 1..Len(got) : got[j] # sent[i]

\* C4: a failure chain reported with send_server_err_event and received with
\* recv_server_msg_type! makes the call fail with the outermost cause under
\* "Error from server:"; no inner cause is in the error, and the frame was
\* decoded as the envelope type, not by the fallback decode.
C4_ErrorSurfacing ==
  (RecvOf("err") /\ dir = "server") => C4_Seen(last.chunk.chain, last.ret.err)

C4_Witness ==
  /\ RecvOf("err")
  /\ dir = "server"
  /\ Len(last.chunk.chain) = 3
  /\ last.chunk.chain[2] # last.chunk.chain[1]
  /\ last.chunk.chain[3] # last.chunk.chain[1]
  /\ ~last.ret.ok

\* the payload fails to decode as the envelope type and decodes as EventError
FallbackTaken(body) ==
  ~DecodeMsgOrErr(body, NoEnv).ok /\ DecodeEventError(body, <<>>).ok

\* the chain with the first-listed cause outermost and the last-listed one
\* innermost, above the base error
FirstListedOutermost(errors, base) ==
  [i \in 1..Len(errors) |-> Txt(errors[i])] \o <<base>>

\* C5: when the payload decodes only as EventError, Tunnel::recv fails with a
\* chain whose outermost context is the first-listed cause and whose
\* innermost is the last-listed one (the order of recv_*_msg_or_error).
C5_FallbackOrder ==
  (last.op = "recv" /\ FallbackTaken(last.body))
    => /\ ~last.t.ok
       /\ last.t.err = FirstListedOutermost(DecodeEventError(last.body, <<>>).v,
                                            Lbl("Error from server"))

C6_Cases(d, env, m) ==
  /\ env.case = "none" => (~m.ok /\ m.err = <<Lbl(BadPkt(d))>>)
  /\ (env.case = "ok" /\ env.ok.v = "None")
       => (~m.ok /\ m.err = <<Lbl(EmptyPkt(d))>>)
  /\ m.ok <=> (env.case = "ok" /\ env.ok.v \in Variants)
  /\ m.ok => m.msg = env.ok

\* C6: for a decoded envelope, recv_*_msg_or_error fails "Bad pkt from
\* <peer>" when neither case is set (a zero-length frame included), fails
\* "Empty pkt from <peer>" when the Ok case holds no message, and returns Ok
\* only for an Ok case with a message, which it returns.
C6_EnvelopeExclusivity ==
  (last.op = "recv" /\ last.t.ok)
    => /\ C6_Cases(dir, last.t.env, last.m)
       /\ (last.nread = 8 /\ last.nreads = 2) => last.m.err = <<Lbl(BadPkt(dir))>>

\* a zero-length frame was received and rejected as a bad packet
C6_Witness ==
  /\ last.op = "recv"
  /\ last.t.ok
  /\ last.nread = 8
  /\ last.nreads = 2
  /\ last.m.err = <<Lbl(BadPkt(dir))>>

\* an Ok envelope without inner message was received and rejected as empty
C6_WitnessEmpty ==
  /\ last.op = "recv"
  /\ last.t.ok
  /\ last.t.env = EnvOk(NoMsg)
  /\ last.m.err = <<Lbl(EmptyPkt(dir))>>

\* C7: when recv_*_msg_or_error returned a message, recv_*_msg_type! returns
\* it unchanged if its variant is the expected one and fails "Bad packet
\* type" otherwise; it returns Ok in no other case.
C7_WrongVariant ==
  last.op = "recv"
    => /\ last.m.ok
         => IF last.m.msg.v = last.expect
            THEN last.ret.ok /\ last.ret.msg = last.m.msg
            ELSE ~last.ret.ok /\ last.ret.err = <<Lbl("Bad packet type")>>
       /\ last.ret.ok => (last.m.ok /\ last.ret.msg.v = last.expect)

\* a sent message of the other variant was rejected
C7_Witness ==
  /\ RecvOf("msg")
  /\ last.m.ok
  /\ last.m.msg = last.chunk.msg
  /\ last.m.msg.v # last.expect
  /\ last.ret.err = <<Lbl("Bad packet type")>>

\* C8: send_*_err_event returns an error, after one write_all (the stream
\* holds what that one call wrote): the error given by the caller, unchanged,
\* when the send succeeded, and the "Error in send" error when it failed.
C8_ErrEventReturn ==
  last.op = "send_err"
    => /\ last.nwrites = 1
       /\ stream = BTake(last.buf, last.wrote)
       /\ ~last.ret.ok
       /\ IF last.wrote = BLen(last.buf)
          THEN last.ret.err = last.chain
          ELSE last.ret.err = ErrorInSend /\ last.ret.err # last.chain

\* the send of an error of three causes failed part-way through the frame
C8_Witness ==
  /\ last.op = "send_err"
  /\ Len(last.chain) = 3
  /\ 0 < last.wrote
  /\ last.wrote < BLen(last.buf)
  /\ last.ret.err = ErrorInSend

\* the 8 bytes h are the little-endian u64 n (n < 2^31)
IsLittleEndian(h, n) ==
  /\ \A i \in 5..8 : h[i] = 0
  /\ h[4] < 128
  /\ h[1] + 256 * h[2] + 65536 * h[3] + 16777216 * h[4] = n

\* C9: the buffer Tunnel::send hands to the stream, in one write_all, is 8
\* bytes of little-endian length followed by exactly that many bytes.
C9_FrameWellFormed ==
  last.op \in {"send_msg", "send_err"}
    => /\ last.nwrites = 1
       /\ BLen(last.buf) >= 8
       /\ IsLittleEndian(Expand(BTake(last.buf, 8)), BLen(last.buf) - 8)
       /\ stream = BTake(last.buf, last.wrote)

\* a frame of more than MAX_PACKET_LEN payload bytes was written in full
C9_Witness ==
  /\ last.op = "send_msg"
  /\ last.wrote = BLen(last.buf)
  /\ BLen(last.buf) - 8 > MAX_PACKET_LEN
  /\ stream = last.buf

\* the stream held fewer bytes than the header, or than the header and the
\* payload length it declares (a length of at most MAX_PACKET_LEN)
ShortStream(avail, hdr) ==
  IF avail < 8 THEN TRUE
  ELSE /\ hdr # <<>>
       /\ ~DigitsGt(hdr, MaxDigits, 8)
       /\ avail < 8 + DigitsVal(hdr, 1)

\* C10: when the stream ends before the 8 header bytes or before the declared
\* payload bytes, Tunnel::recv fails with "Cannot read pkt" and decodes
\* nothing; a message is only ever decoded from a payload read in full.
C10_ShortRead ==
  last.op = "recv"
    => /\ ShortStream(last.chunk.n, last.hdr)
         => /\ last.t = Err(<<Lbl("Cannot read pkt"), IoError>>)
            /\ last.body = <<>>
            /\ ~last.m.ok
            /\ ~last.ret.ok
       /\ last.t.ok
         => /\ ~ShortStream(last.chunk.n, last.hdr)
            /\ last.nread = 8 + BLen(last.body)
            /\ last.hdr # <<>>
            /\ BLen(last.body) = DigitsVal(AsUsize(last.hdr, wordBits), 1)

\* a frame cut in its payload by a failed write was read up to the end of
\* the stream
C10_Witness ==
  /\ RecvOf("partial")
  /\ last.chunk.n > 8
  /\ last.nreads = 2
  /\ last.t = Err(<<Lbl("Cannot read pkt"), IoError>>)

\* proto.rs:81: req_buffer = vec![0u8; len] exists from the moment the length
\* check has passed until Tunnel::recv returns
ReqBufferAllocated == pc = "body"

\* C11: whenever the payload buffer is allocated, the header read passed the
\* length check, and the buffer's size is the length the header declares and
\* is at most MAX_PACKET_LEN.
C11_MemoryBound ==
  ReqBufferAllocated
    => /\ ~DigitsGt(buffer, MaxDigits, 8)
       /\ buffer = WriteU64(len)
       /\ len <= MAX_PACKET_LEN

\* C11 on a 64-bit target only
C11_MemoryBound64 == wordBits = 64 => C11_MemoryBound

\* the size of the buffer alone: at most MAX_PACKET_LEN on every target
C11_SizeCapped == ReqBufferAllocated => len <= MAX_PACKET_LEN

\* C17: a frame is accepted (Tunnel::recv goes on to read its payload) only
\* if the 64-bit value of its header is at most MAX_PACKET_LEN.
C17_FullWidthCheck ==
  (last.op = "recv" /\ last.nreads = 2) => ~DigitsGt(last.hdr, MaxDigits, 8)

\* C17 on a 64-bit target only
C17_FullWidthCheck64 == wordBits = 64 => C17_FullWidthCheck

\* C13: for a received Err envelope with cause list [e0, ..., e(n-1)], n >= 0,
\* recv_*_msg_or_error fails with the chain, outermost first,
\* "Error from <peer>:", e0, ..., e(n-1), "[end err]".
C13_CauseChainOrder ==
  (last.op = "recv" /\ last.t.ok /\ last.t.env.case = "err")
    => /\ ~last.m.ok
       /\ last.m.err = <<Lbl(ErrorFrom(dir))>>
                         \o FirstListedOutermost(last.t.env.errors,
                                                 Lbl("[end err]"))

\* an Err envelope listing two different causes was received
C13_Witness ==
  /\ RecvOf("env")
  /\ last.t.ok
  /\ last.t.env.case = "err"
  /\ Len(last.t.env.errors) = 2
  /\ last.t.env.errors[1] # last.t.env.errors[2]
  /\ Len(last.m.err) = 4

\* an Err envelope with an empty cause list was received
C13_WitnessNoCause ==
  /\ RecvOf("env")
  /\ last.t.ok
  /\ last.t.env = EnvErr(<<>>)
  /\ last.m.err = <<Lbl(ErrorFrom(dir)), Lbl("[end err]")>>

\* C14: whenever recv_*_msg_or_error fails, recv_*_msg_type! fails with
\* "Received error msg" as the outermost context and the chain of that
\* failure unchanged beneath it; its only other failure, "Bad packet type"
\* for a wrong variant, carries no context.
C14_ReceivedErrorMsg ==
  last.op = "recv"
    => /\ ~last.m.ok
         => /\ ~last.ret.ok
            /\ last.ret.err = <<Lbl("Received error msg")>> \o last.m.err
       /\ (last.m.ok /\ ~last.ret.ok)
            => last.ret.err = <<Lbl("Bad packet type")>>
       /\ ~last.t.ok
            => last.m.err = <<Lbl("Error in recv pkt")>> \o last.t.err

\* a payload decoding neither as the envelope nor as EventError was received
C14_Witness ==
  /\ last.op = "recv"
  /\ last.nreads = 2
  /\ last.t.err = <<Lbl("Cannot decode pkt"), DecodeError>>
  /\ last.ret.err = <<Lbl("Received error msg"), Lbl("Error in recv pkt"),
                      Lbl("Cannot decode pkt"), DecodeError>>

\* the failures of the receive path, one witness each
C14_WitnessIo ==
  last.op = "recv" /\ last.t.err = <<Lbl("Cannot read pkt"), IoError>>
C14_WitnessTooBig ==
  last.op = "recv" /\ last.t.err = <<Lbl("Packet too big!")>>
C14_WitnessBadPkt ==
  last.op = "recv" /\ last.m.err = <<Lbl(BadPkt(dir))>>
C14_WitnessEmptyPkt ==
  last.op = "recv" /\ last.m.err = <<Lbl(EmptyPkt(dir))>>
C14_WitnessRemote ==
  last.op = "recv" /\ last.t.ok /\ last.t.env.case = "err"
C14_WitnessBadType ==
  last.op = "recv" /\ last.m.ok /\ last.ret.err = <<Lbl("Bad packet type")>>

\* a label with "client" and "server" exchanged
SwapLabel(s) ==
  CASE s = "Empty pkt from client" -> "Empty pkt from server"
    [] s = "Empty pkt from server" -> "Empty pkt from client"
    [] s = "Bad pkt from client" -> "Bad pkt from server"
    [] s = "Bad pkt from server" -> "Bad pkt from client"
    [] s = "Error from client:" -> "Error from server:"
    [] s = "Error from server:" -> "Error from client:"
    [] s = "Error from client" -> "Error from server"
    [] s = "Error from server" -> "Error from client"
    [] OTHER -> s

\* a result with "client" and "server" exchanged in the labels of its chain
SwapResult(r) ==
  [r EXCEPT !.err = [i \in 1..Len(r.err) |->
                       IF r.err[i].k = "lbl"
                       THEN Lbl(SwapLabel(r.err[i].s)) ELSE r.err[i]]]

\* what recv_client_msg_type! / recv_server_msg_type! returns when
\* Tunnel::recv returned t
RecvTypedAs(d, name, t) == RecvMsgType(name, RecvMsgOrError(d, t))

\* C16: on the same input and the same behaviour of the stream, an operation
\* of the client direction and its counterpart of the server direction have
\* the same outcome up to exchanging "client" and "server" in the labels:
\* send_*_msg_type! given the result of Tunnel::send, recv_*_msg_type! given
\* the result of Tunnel::recv, send_*_err_event given the result of the send.
C16_DirectionSymmetry ==
  /\ last.op = "send_msg"
       => SendClientMsgRet(last.t) = SwapResult(SendServerMsgRet(last.t))
  /\ last.op = "recv"
       => RecvTypedAs("client", last.expect, last.t)
            = SwapResult(RecvTypedAs("server", last.expect, last.t))

\* C16 for send_*_msg_type! alone
C16_SendSymmetry ==
  last.op = "send_msg"
    => SendClientMsgRet(last.t) = SwapResult(SendServerMsgRet(last.t))

\* C16 for recv_*_msg_type! alone
C16_RecvSymmetry ==
  last.op = "recv"
    => RecvTypedAs("client", last.expect, last.t)
         = SwapResult(RecvTypedAs("server", last.expect, last.t))

\* C16 where the write succeeded and the fallback decode was not taken
C16_SymmetryElsewhere ==
  /\ (last.op = "send_msg" /\ last.t.ok) => C16_SendSymmetry
  /\ (last.op = "recv"
        /\ ~(last.nreads = 2 /\ ~last.t.ok /\ FallbackTaken(last.body)))
       => C16_RecvSymmetry

\* Tunnel::send on Stdio has returned Ok
SentInFull == snd.done /\ snd.ret.ok

\* the read_exact in progress finds in the pipe the bytes it still needs
RecvNotBlocked ==
  CASE pc = "hdr" -> BLen(rbuf) + BLen(stream) >= 8
    [] pc = "body" -> BLen(rbuf) + BLen(stream) >= len
    [] OTHER -> TRUE

\* C12: each call of Stdio::write writes to standard output once and then
\* flushes it once, whatever the write returned, so a call that returns Ok
\* leaves nothing unflushed; once Tunnel::send has returned Ok on Stdio,
\* every byte of the frame has been flushed to the pipe, the peer's recv of
\* that frame finds its bytes there and returns the request sent;
\* Stdio::read reads standard input once and neither writes nor flushes.
C12_StdioFlush ==
  /\ sio.op = "write" => (sio.nwrite = 1 /\ sio.nflush = 1 /\ sio.nread = 0)
  /\ (sio.op = "write" /\ sio.ok) => stdout = <<>>
  /\ SentInFull
       => /\ stdout = <<>>
          /\ snd.wrote = BLen(snd.buf)
          /\ snd.flushed = BLen(snd.buf)
  /\ (SentInFull /\ nrecv > 0 /\ nrecv <= Len(sentReqs)) => RecvNotBlocked
  /\ (SentInFull /\ nrecv > 0 /\ nrecv <= Len(sentReqs) /\ last.op = "recv")
       => last.t = Ok(sentReqs[nrecv], NoMsg)
  /\ sio.op = "read" => (sio.nwrite = 0 /\ sio.nflush = 0 /\ sio.nread = 1)

\* the second frame was sent in several writes and the peer's second recv
\* returned its request
C12_Witness ==
  /\ SentInFull
  /\ Len(sentReqs) = 2
  /\ snd.nwrites > 2
  /\ nrecv = 2
  /\ last.op = "recv"
  /\ last.t = Ok(sentReqs[2], NoMsg)

\* a write that failed was followed by a flush
C12_WitnessFailedWrite ==
  sio.op = "write" /\ ~sio.ok /\ sio.nflush = 1 /\ stdout = <<>>

\* a read of Stdio took bytes of the pipe
C12_WitnessRead == sio.op = "read" /\ rbuf # <<>>

\* C19: when Tunnel::send fails with "Cannot encode pkt" it has called no
\* write and handed no byte to the stream; a write is only ever made for a
\* request whose encoding succeeded.
C19_EncodeFailure ==
  /\ (snd.done /\ snd.ret = EncodeFailed)
       => /\ snd.nwrites = 0
          /\ snd.wrote = 0
          /\ snd.flushed = 0
          /\ snd.buf = <<>>
  /\ ~snd.enc => (snd.done /\ snd.ret = EncodeFailed /\ wpc = "idle")
  /\ snd.nwrites > 0 => snd.enc

\* a send failed at the encode step while an earlier frame was in the pipe
C19_Witness ==
  /\ snd.done
  /\ snd.ret = EncodeFailed
  /\ ~snd.enc
  /\ Len(sentReqs) = 1
  /\ BLen(stream) > 8
  /\ open

\* C15 (safety): Tunnel::recv returns a result other than "Cannot read pkt"
\* and "Packet too big!" only after it has read the 8 header bytes and the
\* number of payload bytes the header declares.
C15_BlockingRecv ==
  (last.op = "recv" /\ last.t # ReadError
     /\ last.t # Err(Anyhow(Lbl("Packet too big!"))))
    => /\ last.nreads = 2
       /\ last.hdr # <<>>
       /\ last.nread = 8 + BLen(last.body)
       /\ last.hdr = WriteU64(last.nread - 8)

\* C15 (safety) on a 64-bit target only
C15_BlockingRecv64 == wordBits = 64 => C15_BlockingRecv

\* C15 (liveness): a Tunnel::recv in progress returns
C15_RecvReturns == (pc # "idle") ~> (pc = "idle")

\* a recv that had to wait for its bytes returned the request
C15_Witness ==
  /\ last.op = "recv"
  /\ last.t.ok
  /\ nrecv = 1
  /\ wpc = "write_all"

\* C18: a Tunnel::recv that reached the decode step consumed the 8 header
\* bytes and exactly the number of payload bytes the header declares; and
\* the k-th recv on a pipe that reached the decode step returns the k-th
\* request sent.
C18_FramingSync ==
  /\ (last.op = "recv" /\ last.nreads = 2 /\ last.t # ReadError)
       => /\ last.nread = 8 + BLen(last.body)
          /\ last.hdr = WriteU64(BLen(last.body))
  /\ (last.op = "recv" /\ last.nreads = 2 /\ last.t # ReadError /\ nrecv > 0)
       => /\ nrecv <= Len(sentReqs)
          /\ last.t = Ok(sentReqs[nrecv], NoMsg)

\* C18 on a 64-bit target only
C18_FramingSync64 == wordBits = 64 => C18_FramingSync

\* two frames were in the pipe before the first recv, and the second recv
\* returned the second request, different from the first
C18_Witness ==
  /\ nrecv = 2
  /\ Len(sentReqs) = 2
  /\ sentReqs[1] # sentReqs[2]
  /\ last.op = "recv"
  /\ last.t = Ok(sentReqs[2], NoMsg)
  /\ stream = <<>>

====
